---- MODULE Spec2Model ----
(***************************************************************************)
(* EV battery health prediction: the Flask API of app.py (validate_input,  *)
(* prepare_features, /predict, /health, /) as a state machine.             *)
(*                                                                         *)
(* Numbers.  Python floats are modelled as fixed-point integers counted in *)
(* tenths (3.9 V is 39, -20 degrees is -200); the raw output of the        *)
(* regression model is counted in thousandths and the reported RUL and     *)
(* health in hundredths, so that round(x, 2) has something to round.       *)
(*                                                                         *)
(* JSON values.  A value of a request body is a record [k, v]:             *)
(*   k = "num"    a finite JSON number, v its value in tenths              *)
(*   k = "nan"    the float NaN (json.loads accepts the literal NaN)       *)
(*   k = "str"    a string float() can parse, e.g. "3.9"; v is its value   *)
(*   k = "badstr" a string float() rejects (ValueError), e.g. "abc"        *)
(*   k = "null"   JSON null, None (float(None) is a TypeError)             *)
(*   k = "bigint" an integer literal beyond the float range, e.g. 10**400  *)
(*                (float() raises OverflowError)                           *)
(***************************************************************************)
EXTENDS Integers, Sequences, FiniteSets, TLC

VARIABLES
    data,             \* the argument of the function called (SpecValidate,
                      \* SpecPrepare)
    features,         \* prepare_features' working map, rule by rule (SpecPrepare)
    result,           \* what validate_input returned or raised (SpecValidate)
    pc,               \* process position: "boot", "serving", "exited"
    disk,             \* the files present at startup
    model,            \* global model: "None" or "loaded"
    scaler,           \* global scaler: "None" or "loaded"
    feature_names,    \* global feature_names: a sequence of names
    feature_medians,  \* global feature_medians: name -> tenths
    request,          \* the last request received
    response,         \* the response to it
    calls,            \* the stages predict() invoked for it, in order
    feature_array,    \* what prepare_features gave predict() for it
    probe,            \* an earlier prepare_features call, kept for comparison
    session_state,    \* the dashboard's st.session_state: key -> value
    shown,            \* what the dashboard's last run showed with st.error,
                      \* st.warning and st.success, in order
    report            \* what the dashboard's last run put into the report

vars == <<data, features, result, pc, disk, model, scaler, feature_names,
          feature_medians, request, response, calls, feature_array, probe,
          session_state, shown, report>>

----------------------------------------------------------------------------
(* Values *)

Num(v) == [k |-> "num", v |-> v]
NaN == [k |-> "nan", v |-> 0]
NumStr(v) == [k |-> "str", v |-> v]
BadStr == [k |-> "badstr", v |-> 0]
Null == [k |-> "null", v |-> 0]
BigInt == [k |-> "bigint", v |-> 0]

Max2(a, b) == IF b > a THEN b ELSE a

\* float(x): the converted value, or the exception raised.
ToFloat(x) ==
    CASE x.k = "num" -> [exc |-> "none", val |-> Num(x.v)]
      [] x.k = "nan" -> [exc |-> "none", val |-> NaN]
      [] x.k = "str" -> [exc |-> "none", val |-> Num(x.v)]
      [] x.k = "badstr" -> [exc |-> "ValueError", val |-> NaN]
      [] x.k = "null" -> [exc |-> "TypeError", val |-> NaN]
      [] x.k = "bigint" -> [exc |-> "OverflowError", val |-> NaN]

\* a < b and a > b on floats: every comparison with NaN is False.
FloatLt(a, b) == a.k = "num" /\ b.k = "num" /\ a.v < b.v
FloatGt(a, b) == a.k = "num" /\ b.k = "num" /\ a.v > b.v

----------------------------------------------------------------------------
(* validate_input *)

required_fields ==
    <<"battery_temperature", "voltage", "current", "charging_cycles",
      "state_of_charge">>

FieldNames == {required_fields[i] : i \in 1..Len(required_fields)}

\* The bounds compared against, in tenths.
TempMin == -200
TempMax == 600
VoltageMin == 25
VoltageMax == 45
CurrentMin == 0
CurrentMax == 100
CyclesMin == 0
CyclesMax == 100000
SocMin == 0
SocMax == 1000

\* The five range checks in the order the code makes them; text_lo and
\* text_hi are the bounds the message text states.
RangeChecks ==
    << [field |-> "battery_temperature", lo |-> TempMin, hi |-> TempMax,
        text_lo |-> -200, text_hi |-> 600],
       [field |-> "voltage", lo |-> VoltageMin, hi |-> VoltageMax,
        text_lo |-> 25, text_hi |-> 45],
       [field |-> "current", lo |-> CurrentMin, hi |-> CurrentMax,
        text_lo |-> 0, text_hi |-> 100],
       [field |-> "charging_cycles", lo |-> CyclesMin, hi |-> CyclesMax,
        text_lo |-> 0, text_hi |-> 100000],
       [field |-> "state_of_charge", lo |-> SocMin, hi |-> SocMax,
        text_lo |-> 0, text_hi |-> 1000] >>

\* What validate_input gives back: (is_valid, error_message), or the
\* exception that escapes it.
NoMessage == [kind |-> "None", fields |-> <<>>, field |-> "", lo |-> 0, hi |-> 0]
Returned(ok, msg) == [raised |-> "none", ok |-> ok, msg |-> msg]
Raised(exc) == [raised |-> exc, ok |-> FALSE, msg |-> NoMessage]

MissingMessage(missing) ==
    [kind |-> "MissingFields", fields |-> missing, field |-> "", lo |-> 0, hi |-> 0]
RangeMessage(c) ==
    [kind |-> "InvalidRange", fields |-> <<>>, field |-> c.field,
     lo |-> c.text_lo, hi |-> c.text_hi]
TypeMessage ==
    [kind |-> "InvalidType", fields |-> <<>>, field |-> "", lo |-> 0, hi |-> 0]

\* A request body / argument: [kind, fields].  kind "dict" is a JSON object
\* whose members are fields; "list" and "string" are containers holding none
\* of the field names; "number" is a bare JSON number; "null" is None.
Dict(f) == [kind |-> "dict", fields |-> f]
NonDict(kind) == [kind |-> kind, fields |-> <<>>]

\* `field in data`; a number or None is not iterable (TypeError).
Contains(d, f) == d.kind = "dict" /\ f \in DOMAIN d.fields
Iterable(d) == d.kind \in {"dict", "list", "string"}

\* Mutant of CheckField: `value >= hi` for `value > hi`.
CheckFieldExclusive(d, c) ==
    LET f == ToFloat(d.fields[c.field])
    IN  IF f.exc \in {"ValueError", "TypeError"} THEN Returned(FALSE, TypeMessage)
        ELSE IF f.exc # "none" THEN Raised(f.exc)
        ELSE IF FloatLt(f.val, Num(c.lo)) \/ FloatGt(f.val, Num(c.hi - 1))
             THEN Returned(FALSE, RangeMessage(c))
        ELSE Returned(TRUE, NoMessage)

\* Mutant of CheckField: the message of the voltage check pasted into
\* every check.
CheckFieldPastedMessage(d, c) ==
    LET f == ToFloat(d.fields[c.field])
    IN  IF f.exc \in {"ValueError", "TypeError"} THEN Returned(FALSE, TypeMessage)
        ELSE IF f.exc # "none" THEN Raised(f.exc)
        ELSE IF FloatLt(f.val, Num(c.lo)) \/ FloatGt(f.val, Num(c.hi))
             THEN Returned(FALSE, RangeMessage(RangeChecks[2]))
        ELSE Returned(TRUE, NoMessage)

\* Mutant of CheckField: `except ValueError` for
\* `except (ValueError, TypeError)`.
CheckFieldValueErrorOnly(d, c) ==
    LET f == ToFloat(d.fields[c.field])
    IN  IF f.exc = "ValueError" THEN Returned(FALSE, TypeMessage)
        ELSE IF f.exc # "none" THEN Raised(f.exc)
        ELSE IF FloatLt(f.val, Num(c.lo)) \/ FloatGt(f.val, Num(c.hi))
             THEN Returned(FALSE, RangeMessage(c))
        ELSE Returned(TRUE, NoMessage)

\* One block of the try body (lines 185-203): float() of the field, then
\* the range test.  Returned(TRUE, NoMessage) stands for falling through to
\* the next block; ValueError and TypeError are caught at line 205, any
\* other exception escapes.
CheckField(d, c) ==
    LET f == ToFloat(d.fields[c.field])
    IN  IF f.exc \in {"ValueError", "TypeError"} THEN Returned(FALSE, TypeMessage)
        ELSE IF f.exc # "none" THEN Raised(f.exc)
        ELSE IF FloatLt(f.val, Num(c.lo)) \/ FloatGt(f.val, Num(c.hi))
             THEN Returned(FALSE, RangeMessage(c))
        ELSE Returned(TRUE, NoMessage)

\* The try block (lines 184-208): the checks from the i-th on.
RECURSIVE CheckFrom(_, _)
CheckFrom(d, i) ==
    IF i > Len(RangeChecks) THEN Returned(TRUE, NoMessage)
    ELSE CHOOSE out \in
            {IF r.ok THEN CheckFrom(d, i + 1) ELSE r
             : r \in {CheckField(d, RangeChecks[i])}} : TRUE

\* Mutant of validate_input: only the first missing field is reported.
validate_input_first_missing(d) ==
    IF ~Iterable(d) THEN Raised("TypeError")
    ELSE LET missing_fields == SelectSeq(required_fields, LAMBDA f : ~Contains(d, f))
         IN  IF missing_fields # <<>>
             THEN Returned(FALSE, MissingMessage(<<missing_fields[1]>>))
             ELSE CheckFrom(d, 1)

validate_input(d) ==
    IF ~Iterable(d) THEN Raised("TypeError")
    ELSE LET missing_fields == SelectSeq(required_fields, LAMBDA f : ~Contains(d, f))
         IN  IF missing_fields # <<>>
             THEN Returned(FALSE, MissingMessage(missing_fields))
             ELSE CheckFrom(d, 1)

----------------------------------------------------------------------------
(* prepare_features *)

\* Literals of prepare_features: quantities in tenths (0.5, 3.0, 3.7, 6000,
\* 26.0, 5000) and plain factors (100.0, 1000, 10000).
VoltageOffset == 5
MinChargeFloor == 30
DefaultVoltage == 37
DefaultTime == 60000
temp_mean == 260
SocBase == 50000
SocPercent == 100
SocSlope == 1000
CycleSeconds == 10000

\* A str that Python's str * int repeated (energy_density with a string
\* voltage and the integer default time).
StrRep(v) == [k |-> "strrep", v |-> v]

ExcKinds == {"TypeError", "ValueError", "OverflowError"}
Exc(e) == [k |-> e, v |-> 0]
IsExc(x) == x.k \in ExcKinds

\* What using x as an operand of float arithmetic raises.
Operand(x) ==
    CASE x.k \in {"num", "nan"} -> "none"
      [] x.k = "bigint" -> "OverflowError"
      [] OTHER -> "TypeError"

\* a - b, a * b on floats; a product of tenths is tenths again (taken in
\* two parts to stay within 32 bits).
Sub(a, b) ==
    IF Operand(a) # "none" THEN Exc(Operand(a))
    ELSE IF Operand(b) # "none" THEN Exc(Operand(b))
    ELSE IF a.k = "nan" \/ b.k = "nan" THEN NaN
    ELSE Num(a.v - b.v)

Mul(a, b) ==
    IF Operand(a) # "none" THEN Exc(Operand(a))
    ELSE IF Operand(b) # "none" THEN Exc(Operand(b))
    ELSE IF a.k = "nan" \/ b.k = "nan" THEN NaN
    ELSE Num((a.v \div 10) * b.v + ((a.v % 10) * b.v) \div 10)

\* a * n and a + n for a float a and a plain factor or offset n.
Scale(a, n) ==
    IF Operand(a) # "none" THEN Exc(Operand(a))
    ELSE IF a.k = "nan" THEN NaN
    ELSE Num(a.v * n)

\* max(a, b) of two floats: b only if b > a, so a NaN first argument stays.
PyMax(a, b) == IF IsExc(a) THEN a ELSE IF FloatGt(b, a) THEN b ELSE a

\* float(x) as a value: the float, or the exception.
AsFloat(x) == IF ToFloat(x).exc = "none" THEN ToFloat(x).val ELSE Exc(ToFloat(x).exc)

Range(s) == {s[i] : i \in 1..Len(s)}

\* features[name] = value, unless computing value raised.
Assign(s, name, value) ==
    IF IsExc(value) THEN [s EXCEPT !.exc = value.k]
    ELSE [s EXCEPT !.features =
                [n \in DOMAIN s.features \cup {name} |->
                    IF n = name THEN value ELSE s.features[n]]]

\* `if name in feature_names: features[name] = value`
AssignIfNamed(s, names, name, value) ==
    IF s.exc # "none" \/ name \notin Range(names) THEN s
    ELSE Assign(s, name, value)

\* features.get(name, default)
Get(map, name, default) ==
    IF name \in DOMAIN map THEN map[name] ELSE default

\* Mutant of InitialFeatures: every feature starts at 0.0.
InitialFeaturesZero(names, medians) ==
    [n \in Range(names) |-> Num(0)]

\* Line 94: medians, or 0.0, for every catalog name.
InitialFeatures(names, medians) ==
    [n \in Range(names) |-> IF n \in DOMAIN medians THEN Num(medians[n]) ELSE Num(0)]

\* Mutant of StepTemperature: the write without `if ... in feature_names`.
StepTemperatureUnguarded(s, ui, names) ==
    IF "battery_temperature" \notin DOMAIN ui THEN s
    ELSE Assign(s, "Exp_Temperature", ui["battery_temperature"])

\* Lines 98-100.
StepTemperature(s, ui, names) ==
    IF "battery_temperature" \notin DOMAIN ui THEN s
    ELSE AssignIfNamed(s, names, "Exp_Temperature", ui["battery_temperature"])

\* Mutant of StepVoltage: voltage - 0.5 without the floor at 3.0.
StepVoltageNoFloor(s, ui, names) ==
    IF "voltage" \notin DOMAIN ui THEN s
    ELSE LET voltage == ui["voltage"]
             s1 == AssignIfNamed(s, names, "Exp_Voltage", voltage)
             s2 == AssignIfNamed(s1, names, "Max. Voltage Dischar. (V)", voltage)
         IN  AssignIfNamed(s2, names, "Min. Voltage Charg. (V)",
                           Sub(voltage, Num(VoltageOffset)))

\* Lines 102-111.
StepVoltage(s, ui, names) ==
    IF "voltage" \notin DOMAIN ui THEN s
    ELSE LET voltage == ui["voltage"]
             s1 == AssignIfNamed(s, names, "Exp_Voltage", voltage)
             s2 == AssignIfNamed(s1, names, "Max. Voltage Dischar. (V)", voltage)
         IN  IF "Min. Voltage Charg. (V)" \notin Range(names) THEN s2
             ELSE AssignIfNamed(s2, names, "Min. Voltage Charg. (V)",
                      PyMax(Sub(voltage, Num(VoltageOffset)), Num(MinChargeFloor)))

\* Lines 113-115.
StepCurrent(s, ui, names) ==
    IF "current" \notin DOMAIN ui THEN s
    ELSE AssignIfNamed(s, names, "Exp_Current", ui["current"])

\* Lines 117-123; float(...) is evaluated whether or not a name matches.
StepCycles(s, ui, names) ==
    IF s.exc # "none" \/ "charging_cycles" \notin DOMAIN ui THEN s
    ELSE LET cycles == AsFloat(ui["charging_cycles"])
         IN  IF IsExc(cycles) THEN [s EXCEPT !.exc = cycles.k]
             ELSE AssignIfNamed(AssignIfNamed(s, names, "Cycle_Index", cycles),
                                names, "cycle_squared", Mul(cycles, cycles))

\* Mutant of StepVoltageDrop: the operands swapped.
StepVoltageDropSwapped(s, names) ==
    IF s.exc # "none" \/ "voltage_drop" \notin Range(names) THEN s
    ELSE IF "Max. Voltage Dischar. (V)" \in DOMAIN s.features
            /\ "Min. Voltage Charg. (V)" \in DOMAIN s.features
         THEN Assign(s, "voltage_drop",
                     Sub(s.features["Min. Voltage Charg. (V)"],
                         s.features["Max. Voltage Dischar. (V)"]))
         ELSE s

\* Lines 126-128.
StepVoltageDrop(s, names) ==
    IF s.exc # "none" \/ "voltage_drop" \notin Range(names) THEN s
    ELSE IF "Max. Voltage Dischar. (V)" \in DOMAIN s.features
            /\ "Min. Voltage Charg. (V)" \in DOMAIN s.features
         THEN Assign(s, "voltage_drop",
                     Sub(s.features["Max. Voltage Dischar. (V)"],
                         s.features["Min. Voltage Charg. (V)"]))
         ELSE s

\* Mutant of StepEnergyDensity: the fetched current multiplied in.
StepEnergyDensityWithCurrent(s, names) ==
    IF s.exc # "none" \/ "energy_density" \notin Range(names) THEN s
    ELSE LET voltage_val == Get(s.features, "Exp_Voltage",
                                Get(s.features, "Max. Voltage Dischar. (V)",
                                    Num(DefaultVoltage)))
             current_val == Get(s.features, "Exp_Current", Num(20))
             time_val == Get(s.features, "Time constant current (s)", Num(DefaultTime))
         IN  Assign(s, "energy_density", Mul(Mul(voltage_val, current_val), time_val))

\* Lines 130-136.  current_val is fetched and never used.  A catalog value
\* of the time feature is a float; the default 6000 is an int, and a str
\* times an int is a str.
StepEnergyDensity(s, names) ==
    IF s.exc # "none" \/ "energy_density" \notin Range(names) THEN s
    ELSE LET voltage_val == Get(s.features, "Exp_Voltage",
                                Get(s.features, "Max. Voltage Dischar. (V)",
                                    Num(DefaultVoltage)))
             timed == "Time constant current (s)" \in DOMAIN s.features
             time_val == Get(s.features, "Time constant current (s)", Num(DefaultTime))
         IN  IF voltage_val.k \in {"str", "badstr"} /\ ~timed
             THEN Assign(s, "energy_density", StrRep(voltage_val.v))
             ELSE Assign(s, "energy_density", Mul(voltage_val, time_val))

\* Mutant of StepTempDeviation: computed whether or not the temperature
\* feature is in the working map.
StepTempDeviationDefaulting(s, names) ==
    IF s.exc # "none" \/ "temp_deviation" \notin Range(names) THEN s
    ELSE Assign(s, "temp_deviation",
                Sub(Get(s.features, "Exp_Temperature", Num(0)), Num(temp_mean)))

\* Lines 138-141.
StepTempDeviation(s, names) ==
    IF s.exc # "none" \/ "temp_deviation" \notin Range(names)
       \/ "Exp_Temperature" \notin DOMAIN s.features THEN s
    ELSE Assign(s, "temp_deviation", Sub(s.features["Exp_Temperature"], Num(temp_mean)))

\* Mutant of StepSoc: the percentage not converted to a fraction.
StepSocPercent(s, ui, names) ==
    IF s.exc # "none" \/ "state_of_charge" \notin DOMAIN ui THEN s
    ELSE LET x == ui["state_of_charge"]
         IN  IF Operand(x) # "none" THEN [s EXCEPT !.exc = Operand(x)]
             ELSE AssignIfNamed(s, names, "Time at 4.15V (s)",
                      IF x.k = "nan" THEN NaN ELSE Num(SocBase + x.v * SocSlope))

\* Lines 144-150; the division is evaluated whether or not the name
\* matches.  soc is a fraction, so soc * 1000 is taken before the division
\* by 100 to stay exact in tenths.
StepSoc(s, ui, names) ==
    IF s.exc # "none" \/ "state_of_charge" \notin DOMAIN ui THEN s
    ELSE LET x == ui["state_of_charge"]
         IN  IF Operand(x) # "none" THEN [s EXCEPT !.exc = Operand(x)]
             ELSE AssignIfNamed(s, names, "Time at 4.15V (s)",
                      IF x.k = "nan" THEN NaN
                      ELSE Num(SocBase + (x.v * SocSlope) \div SocPercent))

\* Mutant of StepExpTime: the estimate taken from the state of charge.
StepExpTimeFromSoc(s, ui, names) ==
    IF s.exc # "none" \/ "Exp_Time" \notin Range(names)
       \/ "state_of_charge" \notin DOMAIN ui THEN s
    ELSE Assign(s, "Exp_Time", Scale(AsFloat(ui["state_of_charge"]), CycleSeconds))

\* Lines 153-157.
StepExpTime(s, ui, names) ==
    IF s.exc # "none" \/ "Exp_Time" \notin Range(names)
       \/ "charging_cycles" \notin DOMAIN ui THEN s
    ELSE LET cycles == AsFloat(ui["charging_cycles"])
         IN  Assign(s, "Exp_Time", Scale(cycles, CycleSeconds))

\* Lines 93-157: the working map after every rule, or the exception.
\* (Each step's result is bound as the member of a singleton set, so that
\* it is computed once.)
WorkingMap(ui, names, medians) ==
    CHOOSE s9 \in
        {StepExpTime(s8, ui, names) : s8 \in
        {StepSoc(s7, ui, names) : s7 \in
        {StepTempDeviation(s6, names) : s6 \in
        {StepEnergyDensity(s5, names) : s5 \in
        {StepVoltageDrop(s4, names) : s4 \in
        {StepCycles(s3, ui, names) : s3 \in
        {StepCurrent(s2, ui, names) : s2 \in
        {StepVoltage(s1, ui, names) : s1 \in
        {StepTemperature(s0, ui, names) : s0 \in
        {[features |-> InitialFeatures(names, medians), exc |-> "none"]}}}}}}}}}} : TRUE

\* Mutant of FeatureArray: one entry per key of the working map, not per
\* catalog name.
FeatureArrayPerKey(s, names, medians) ==
    LET first == {i \in 1..Len(names) : \A j \in 1..(i - 1) : names[j] # names[i]}
        nth(k) == CHOOSE i \in first : Cardinality({j \in first : j < i}) = k - 1
    IN  [exc |-> s.exc,
         array |-> IF s.exc # "none" THEN <<>>
                   ELSE [k \in 1..Cardinality(first) |-> s.features[names[nth(k)]]]]

\* Lines 160-163: the vector in catalog order, or the exception raised.
FeatureArray(s, names, medians) ==
    [exc |-> s.exc,
     array |-> IF s.exc # "none" THEN <<>>
               ELSE [i \in 1..Len(names) |->
                       Get(s.features, names[i],
                           IF names[i] \in DOMAIN medians
                           THEN Num(medians[names[i]]) ELSE Num(0))]]

\* Lines 78-163.
prepare_features(ui, names, medians) ==
    CHOOSE r \in {FeatureArray(s, names, medians)
                    : s \in {WorkingMap(ui, names, medians)}} : TRUE

----------------------------------------------------------------------------
(* predict: POST /predict *)

\* Assumed maximum RUL, in cycles.
max_rul == 1200

ErrorMessage(kind) ==
    [kind |-> kind, fields |-> <<>>, field |-> "", lo |-> 0, hi |-> 0]

ErrorResponse(status, error) ==
    [status |-> status, body_status |-> "error", error |-> error,
     predicted_rul |-> 0, battery_health_percentage |-> 0, input_data |-> <<>>]

\* n/d rounded to the nearest integer, ties to the even one (d > 0):
\* Python's round().
RoundHalfEven(n, d) ==
    LET q == n \div d
        r == n % d
    IN  IF 2 * r < d THEN q
        ELSE IF 2 * r > d THEN q + 1
        ELSE IF q % 2 = 0 THEN q ELSE q + 1

\* Line 294: max(0, float(rul_prediction)), raw and result in thousandths.
FlooredRul(raw) == Max2(0, raw)

\* Line 316: round(rul_prediction, 2), in hundredths.
ReportedRul(rul) == RoundHalfEven(rul, 10)

\* Mutant of BatteryHealth: the cap at 100 left out.
BatteryHealthUncapped(rul) ==
    RoundHalfEven(Max2(0, rul) * 100, max_rul * 10)

\* Lines 309-310 and 317: round(min(100, max(0, (rul / max_rul) * 100)), 2)
\* in hundredths of a percent; the percentage is the fraction n/d.
BatteryHealth(rul) ==
    LET n == rul
        d == max_rul * 10
        floored == Max2(0, n)
        capped == IF 100 * d < floored THEN 100 * d ELSE floored
    IN  RoundHalfEven(capped * 100, d)

\* Lines 313-325: the 200 response.
SuccessResponse(rul, d) ==
    [status |-> 200, body_status |-> "success", error |-> NoMessage,
     predicted_rul |-> ReportedRul(rul),
     battery_health_percentage |-> BatteryHealth(rul),
     input_data |-> [f \in FieldNames |-> d.fields[f]]]

\* Mutant of PipelineAfter: when scaling fails the prediction is made from
\* the unscaled features.
PipelineAfterUnscaled(req, built) ==
    IF built.exc # "none"
    THEN [response |-> ErrorResponse(500, ErrorMessage("Error preparing features")),
          calls |-> <<"validate_input", "prepare_features">>,
          feature_array |-> built]
    ELSE IF req.model_raises
    THEN [response |-> ErrorResponse(500, ErrorMessage("Error making prediction")),
          calls |-> <<"validate_input", "prepare_features", "scaler.transform",
                      "model.predict">>,
          feature_array |-> built]
    ELSE [response |-> SuccessResponse(FlooredRul(req.raw), req.body),
          calls |-> <<"validate_input", "prepare_features", "scaler.transform",
                      "model.predict">>,
          feature_array |-> built]

\* Lines 276-320: what follows prepare_features, given what it built.
PipelineAfter(req, built) ==
    IF built.exc # "none"
    THEN [response |-> ErrorResponse(500, ErrorMessage("Error preparing features")),
          calls |-> <<"validate_input", "prepare_features">>,
          feature_array |-> built]
    ELSE IF req.scaler_raises
    THEN [response |-> ErrorResponse(500, ErrorMessage("Error scaling features")),
          calls |-> <<"validate_input", "prepare_features", "scaler.transform">>,
          feature_array |-> built]
    ELSE IF req.model_raises
    THEN [response |-> ErrorResponse(500, ErrorMessage("Error making prediction")),
          calls |-> <<"validate_input", "prepare_features", "scaler.transform",
                      "model.predict">>,
          feature_array |-> built]
    ELSE [response |-> SuccessResponse(FlooredRul(req.raw), req.body),
          calls |-> <<"validate_input", "prepare_features", "scaler.transform",
                      "model.predict">>,
          feature_array |-> built]

\* Lines 273-325: the three stages, for a body validation accepted.
Pipeline(req, names, medians) ==
    CHOOSE out \in {PipelineAfter(req, built) :
                      built \in {prepare_features(req.body.fields, names, medians)}} : TRUE

\* Mutant of Rejected: a refused body answered as a server error.
RejectedAsServerError(msg) ==
    [response |-> ErrorResponse(500, msg), calls |-> <<"validate_input">>,
     feature_array |-> [exc |-> "not called", array |-> <<>>]]

\* Lines 267-271: the answer to a body validate_input refused.
Rejected(msg) ==
    [response |-> ErrorResponse(400, msg), calls |-> <<"validate_input">>,
     feature_array |-> [exc |-> "not called", array |-> <<>>]]

\* An answer given before the pipeline, with a fixed message.
Refused(status, kind, stages) ==
    [response |-> ErrorResponse(status, ErrorMessage(kind)), calls |-> stages,
     feature_array |-> [exc |-> "not called", array |-> <<>>]]

\* Lines 249-326, the try block.  req: is_json (the content type), body
\* (the parsed JSON, "malformed" when parsing fails), and what the external
\* scaler and model do with this request (scaler_raises, model_raises, raw
\* output).
TryBlock(req, names, medians) ==
    IF ~req.is_json
    THEN Refused(400, "Content-Type must be application/json", <<>>)
    ELSE IF req.body.kind = "malformed" THEN Refused(500, "Unexpected error", <<>>)
    ELSE IF req.body.kind = "null" THEN Refused(400, "No JSON data provided", <<>>)
    ELSE CHOOSE out \in
            {IF v.raised # "none"
             THEN Refused(500, "Unexpected error", <<"validate_input">>)
             ELSE IF ~v.ok THEN Rejected(v.msg)
             ELSE Pipeline(req, names, medians)
             : v \in {validate_input(req.body)}} : TRUE

\* Mutant of predict: the content type checked before the globals.
predict_content_type_first(req, mdl, scl, names, medians) ==
    IF ~req.is_json
    THEN Refused(400, "Content-Type must be application/json", <<>>)
    ELSE IF mdl = "None" \/ scl = "None" THEN Refused(500, "Model not loaded", <<>>)
    ELSE TryBlock(req, names, medians)

\* Lines 221-326.
predict(req, mdl, scl, names, medians) ==
    IF mdl = "None" \/ scl = "None" THEN Refused(500, "Model not loaded", <<>>)
    ELSE TryBlock(req, names, medians)

----------------------------------------------------------------------------
(* health_check, index, load_model_and_scaler *)

\* Mutant of health_check: 503 "unhealthy" while a global is None.
health_check_unavailable(mdl, scl) ==
    [status |-> IF mdl = "None" \/ scl = "None" THEN 503 ELSE 200,
     body_status |-> IF mdl = "None" \/ scl = "None" THEN "unhealthy" ELSE "healthy",
     model_loaded |-> mdl # "None", scaler_loaded |-> scl # "None"]

\* Lines 211-218.
health_check(mdl, scl) ==
    [status |-> 200, body_status |-> "healthy",
     model_loaded |-> mdl # "None", scaler_loaded |-> scl # "None"]

\* Lines 334-352.
index == [status |-> 200, body_status |-> "", message |-> "EV Battery Health Prediction API"]

\* The numeric columns of data/merged_battery_data.csv other than RUL and
\* Exp_Cell_Type, in column order ("Discharge Time (s)" is a column no rule
\* of prepare_features writes), and their medians in tenths.
DatasetColumns ==
    <<"Cycle_Index", "Exp_Temperature", "Exp_Voltage", "Exp_Current", "Exp_Time",
      "Discharge Time (s)", "Max. Voltage Dischar. (V)", "Min. Voltage Charg. (V)",
      "Time at 4.15V (s)", "Time constant current (s)", "cycle_squared",
      "voltage_drop", "energy_density", "temp_deviation">>

DatasetMedians ==
    [n \in Range(DatasetColumns) |->
        CASE n = "Cycle_Index" -> 5000
          [] n = "Exp_Temperature" -> 250
          [] n = "Exp_Voltage" -> 42
          [] n = "Exp_Current" -> 20
          [] n = "Exp_Time" -> 50000000
          [] n = "Discharge Time (s)" -> 19000
          [] n = "Max. Voltage Dischar. (V)" -> 41
          [] n = "Min. Voltage Charg. (V)" -> 33
          [] n = "Time at 4.15V (s)" -> 51000
          [] n = "Time constant current (s)" -> 25000
          [] n = "cycle_squared" -> 2500000
          [] n = "voltage_drop" -> 8
          [] n = "energy_density" -> 105000
          [] n = "temp_deviation" -> -10]

\* Mutant of load_model_and_scaler: no feature names found is no error.
load_model_and_scaler_lenient(dk) ==
    IF ~dk.model_pkl
    THEN [raised |-> TRUE, model |-> "None", scaler |-> "None",
          feature_names |-> <<>>, feature_medians |-> <<>>]
    ELSE IF ~dk.scaler_pkl
    THEN [raised |-> TRUE, model |-> "loaded", scaler |-> "None",
          feature_names |-> <<>>, feature_medians |-> <<>>]
    ELSE [raised |-> FALSE, model |-> "loaded", scaler |-> "loaded",
          feature_names |-> IF dk.model_info THEN dk.info_names
                            ELSE IF dk.dataset THEN DatasetColumns ELSE <<>>,
          feature_medians |-> IF dk.dataset THEN DatasetMedians ELSE <<>>]

\* load_model_and_scaler (lines 25-75) on a disk: what the globals hold
\* when it returns or raises.  A global that is still None holds "None"
\* (model, scaler) or the empty sequence or map (feature_names,
\* feature_medians).
load_model_and_scaler(dk) ==
    IF ~dk.model_pkl
    THEN [raised |-> TRUE, model |-> "None", scaler |-> "None",
          feature_names |-> <<>>, feature_medians |-> <<>>]
    ELSE IF ~dk.scaler_pkl
    THEN [raised |-> TRUE, model |-> "loaded", scaler |-> "None",
          feature_names |-> <<>>, feature_medians |-> <<>>]
    ELSE IF ~dk.model_info /\ ~dk.dataset
    THEN [raised |-> TRUE, model |-> "loaded", scaler |-> "loaded",
          feature_names |-> <<>>, feature_medians |-> <<>>]
    ELSE [raised |-> FALSE, model |-> "loaded", scaler |-> "loaded",
          feature_names |-> IF dk.model_info THEN dk.info_names ELSE DatasetColumns,
          feature_medians |-> IF dk.dataset THEN DatasetMedians ELSE <<>>]

----------------------------------------------------------------------------
(* validate_input applied to sampled arguments *)

\* How many tenths beyond each bound the out-of-range samples go.
Margin == 1

\* The values of the documented sample request, a number inside each range.
Nominal ==
    [battery_temperature |-> 325, voltage |-> 39, current |-> 12,
     charging_cycles |-> 5400, state_of_charge |-> 760]

\* The values sampled for the field of check c: both bounds, a number
\* between them, the numbers just outside them, NaN, a numeric string, a
\* non-numeric string, null and an integer beyond the float range.
SampleValues(c) ==
    {Num(c.lo - k) : k \in 1..Margin} \cup {Num(c.hi + k) : k \in 1..Margin}
    \cup {Num(c.lo), Num(c.hi), Num(Nominal[c.field]), NaN,
          NumStr(Nominal[c.field]), BadStr, Null, BigInt}

CheckOf(f) == CHOOSE c \in Range(RangeChecks) : c.field = f

\* The upper bound checked for field f.
UpperBound(f) == CheckOf(f).hi

\* A field left out of a dict.
Absent == [k |-> "absent", v |-> 0]

\* The dict holding the fields that pick does not leave out.
DictOf(pick) ==
    Dict([f \in {g \in DOMAIN pick : pick[g] # Absent} |-> pick[f]])

\* The arguments that are not dicts.
OtherArguments ==
    {NonDict("list"), NonDict("string"), NonDict("number"), NonDict("null")}

NoResult == [raised |-> "none", ok |-> FALSE, msg |-> NoMessage]
NoRequest == [route |-> "", is_json |-> FALSE, body |-> NonDict("unparsed"),
              scaler_raises |-> FALSE, model_raises |-> FALSE, raw |-> 0]
NoResponse ==
    [status |-> 0, body_status |-> "", error |-> NoMessage,
     predicted_rul |-> 0, battery_health_percentage |-> 0, input_data |-> <<>>]
NoArray == [exc |-> "not called", array |-> <<>>]
NoProbe == [set |-> FALSE, input |-> <<>>, output |-> NoArray, between |-> FALSE]
NoFeatures == [features |-> <<>>, exc |-> "not called"]
NoReport == [format |-> "none"]
\* The dashboard before its first run: an empty session state.
DashboardClosed == session_state = <<>> /\ shown = <<>> /\ report = NoReport

ServerIdle ==
    /\ disk = {}
    /\ features = NoFeatures
    /\ model = "None"
    /\ scaler = "None"
    /\ feature_names = <<>>
    /\ feature_medians = <<>>
    /\ request = NoRequest
    /\ response = NoResponse
    /\ calls = <<>>
    /\ feature_array = NoArray
    /\ probe = NoProbe
    /\ DashboardClosed

InitValidate ==
    /\ pc = "call"
    /\ \/ \E t \in SampleValues(RangeChecks[1]) \cup {Absent},
               v \in SampleValues(RangeChecks[2]) \cup {Absent},
               c \in SampleValues(RangeChecks[3]) \cup {Absent},
               n \in SampleValues(RangeChecks[4]) \cup {Absent},
               s \in SampleValues(RangeChecks[5]) \cup {Absent} :
             data = DictOf([battery_temperature |-> t, voltage |-> v, current |-> c,
                            charging_cycles |-> n, state_of_charge |-> s])
       \/ data \in OtherArguments
    /\ result = NoResult
    /\ ServerIdle

CallValidate ==
    /\ pc = "call"
    /\ result' = validate_input(data)
    /\ pc' = "done"
    /\ UNCHANGED <<session_state, shown, report, data, features, disk, model, scaler, feature_names, feature_medians,
                   request, response, calls, feature_array, probe>>

NextValidate == CallValidate

SpecValidate == InitValidate /\ [][NextValidate]_vars

----------------------------------------------------------------------------
(* The server process *)

\* The raw model outputs sampled go up to RawSteps * 300 cycles.
RawSteps == 5

\* Raw outputs of model.predict, in thousandths: below zero, around the
\* multiples of 300 up past max_rul, with third decimals that round down,
\* up and on a tie.
RawOutputs == {k * 300000 + j : k \in -1..RawSteps, j \in {-5, 0, 4, 5, 60, 180}}

\* The feature_names lists of a model_info.json: the dataset's columns in
\* reverse, a short list with a name the dataset has no column for, and
\* the list of a file without the key.
InfoCatalogs ==
    { [i \in 1..Len(DatasetColumns) |-> DatasetColumns[Len(DatasetColumns) + 1 - i]],
      <<"Exp_Voltage", "energy_density", "Exp_Current", "Discharge Time (s)", "Capacity">>,
      <<>> }

DiskStates ==
    {dk \in [model_pkl : BOOLEAN, scaler_pkl : BOOLEAN, model_info : BOOLEAN,
             info_names : InfoCatalogs, dataset : BOOLEAN] :
        ~dk.model_info => dk.info_names = <<>>}

PredictReq(is_json, body, env) ==
    [route |-> "POST /predict", is_json |-> is_json, body |-> body,
     scaler_raises |-> env.scaler_raises, model_raises |-> env.model_raises,
     raw |-> env.raw]

Quiet == [scaler_raises |-> FALSE, model_raises |-> FALSE, raw |-> 0]

\* What the scaler and the model may do with a request: nothing when the
\* request never reaches them; otherwise the scaler raises, or the model
\* raises, or the model returns one of raws.
Environments(body, raws) ==
    IF \E dry \in {predict(PredictReq(TRUE, body, Quiet), model, scaler,
                             feature_names, feature_medians)} :
          "prepare_features" \notin Range(dry.calls) \/ dry.feature_array.exc # "none"
    THEN {Quiet}
    ELSE {[scaler_raises |-> TRUE, model_raises |-> FALSE, raw |-> 0],
          [scaler_raises |-> FALSE, model_raises |-> TRUE, raw |-> 0]}
         \cup {[scaler_raises |-> FALSE, model_raises |-> FALSE, raw |-> r] : r \in raws}

\* __main__ (lines 355-381): load, then serve, or exit(1) when load raised.
Startup ==
    /\ pc = "boot"
    /\ LET r == load_model_and_scaler(disk)
       IN  /\ model' = r.model
           /\ scaler' = r.scaler
           /\ feature_names' = r.feature_names
           /\ feature_medians' = r.feature_medians
           /\ pc' = IF r.raised THEN "exited" ELSE "serving"
    /\ UNCHANGED <<session_state, shown, report, data, features, result, disk, request, response, calls, feature_array, probe>>

\* The module imported by a WSGI server or `flask run`: __name__ is not
\* '__main__', nothing is loaded, and app serves with the globals None.
ServeImported ==
    /\ pc = "boot"
    /\ pc' = "serving"
    /\ UNCHANGED <<session_state, shown, report, data, features, result, disk, model, scaler, feature_names, feature_medians,
                   request, response, calls, feature_array, probe>>

\* One POST /predict, handled by predict().
PredictRequestConsuming(req) ==
    \E out \in {predict(req, model, scaler, feature_names, feature_medians)} :
        /\ pc = "serving"
        /\ request' = req
        /\ response' = out.response
        /\ calls' = out.calls
        /\ feature_array' = out.feature_array
        /\ feature_names' = IF "prepare_features" \in Range(out.calls)
                            THEN <<>> ELSE feature_names
        /\ UNCHANGED <<session_state, shown, report, data, features, result, disk, model, scaler, feature_medians>>

\* Mutant of PredictRequest: the working map aliased to feature_medians, so
\* that a prepare_features call writes the request's values into it.
PredictRequestAliasing(req) ==
    \E out \in {predict(req, model, scaler, feature_names, feature_medians)} :
        /\ pc = "serving"
        /\ request' = req
        /\ response' = out.response
        /\ calls' = out.calls
        /\ feature_array' = out.feature_array
        /\ feature_medians' =
              IF out.feature_array.exc = "none"
              THEN [n \in DOMAIN feature_medians |->
                      IF \E i \in 1..Len(feature_names) :
                            feature_names[i] = n /\ out.feature_array.array[i].k = "num"
                      THEN (CHOOSE x \in {out.feature_array.array[i] :
                                i \in {j \in 1..Len(feature_names) : feature_names[j] = n}}
                              : TRUE).v
                      ELSE feature_medians[n]]
              ELSE feature_medians
        /\ UNCHANGED <<session_state, shown, report, data, features, result, disk, model, scaler, feature_names>>

PredictRequest(req) ==
    \E out \in {predict(req, model, scaler, feature_names, feature_medians)} :
        /\ pc = "serving"
        /\ request' = req
        /\ response' = out.response
        /\ calls' = out.calls
        /\ feature_array' = out.feature_array
        /\ UNCHANGED <<session_state, shown, report, data, features, result, disk, model, scaler, feature_names, feature_medians>>

\* One GET /health.
HealthRequest ==
    /\ pc = "serving"
    /\ request' = [NoRequest EXCEPT !.route = "GET /health"]
    /\ response' = health_check(model, scaler)
    /\ calls' = <<>>
    /\ feature_array' = NoArray
    /\ UNCHANGED <<session_state, shown, report, data, features, result, pc, disk, model, scaler, feature_names,
                   feature_medians, probe>>

\* One GET /.
IndexRequest ==
    /\ pc = "serving"
    /\ request' = [NoRequest EXCEPT !.route = "GET /"]
    /\ response' = index
    /\ calls' = <<>>
    /\ feature_array' = NoArray
    /\ UNCHANGED <<session_state, shown, report, data, features, result, pc, disk, model, scaler, feature_names,
                   feature_medians, probe>>

\* Bodies of the requests the running server is sent over and over: the
\* documented sample, a second valid body, a NaN temperature, cycles and
\* state of charge as numeric strings, the two bodies of test_api.py that
\* must be refused, and JSON null.
NominalBody == DictOf([f \in FieldNames |-> Num(Nominal[f])])
SampleBodies ==
    { NominalBody,
      DictOf([f \in FieldNames |-> Num(UpperBound(f))]),
      Dict([NominalBody.fields EXCEPT !["battery_temperature"] = NaN]),
      Dict([NominalBody.fields EXCEPT !["charging_cycles"] = NumStr(5400)]),
      Dict([NominalBody.fields EXCEPT !["state_of_charge"] = NumStr(760)]),
      Dict([NominalBody.fields EXCEPT !["battery_temperature"] = Num(1500),
                                      !["state_of_charge"] = Num(1500)]),
      DictOf([f \in FieldNames |->
                IF f \in {"battery_temperature", "voltage"} THEN Num(Nominal[f]) ELSE Absent]),
      NonDict("null") }
SampleRaws == {-5, 850504, 1500000}

\* The kept call: replaced by this one, or kept, noting whether a request
\* with another body came after it.
Aged(p, req) ==
    IF p.set /\ req.body.fields # p.input THEN [p EXCEPT !.between = TRUE] ELSE p

ServePredict ==
    /\ pc = "serving"
    /\ \E body \in SampleBodies :
        \E env \in Environments(body, SampleRaws) :
            /\ PredictRequest(PredictReq(TRUE, body, env))
            /\ pc' = pc
            /\ \/ probe' = Aged(probe, request')
               \/ /\ "prepare_features" \in Range(calls')
                  /\ probe' = [set |-> TRUE, input |-> body.fields,
                               output |-> feature_array', between |-> FALSE]

Init ==
    /\ pc = "boot"
    /\ disk \in DiskStates
    /\ data = NonDict("null")
    /\ features = NoFeatures
    /\ result = NoResult
    /\ model = "None"
    /\ scaler = "None"
    /\ feature_names = <<>>
    /\ feature_medians = <<>>
    /\ request = NoRequest
    /\ response = NoResponse
    /\ calls = <<>>
    /\ feature_array = NoArray
    /\ probe = NoProbe
    /\ DashboardClosed

Next == Startup \/ ServeImported \/ ServePredict \/ HealthRequest \/ IndexRequest

Spec == Init /\ [][Next]_vars

----------------------------------------------------------------------------
(* One POST /predict, from sampled bodies, to a server after startup *)

\* A value outside each range; 150 for the temperature and the state of
\* charge as in test_api.py.
OutSample ==
    [battery_temperature |-> 1500, voltage |-> 50, current |-> 110,
     charging_cycles |-> 100010, state_of_charge |-> 1500]

PredictValues(f) ==
    {Num(Nominal[f]), Num(OutSample[f]), NaN, NumStr(Nominal[f]), BadStr, BigInt, Absent}

OtherBodies ==
    {NonDict("null"), NonDict("list"), NonDict("string"), NonDict("number"),
     NonDict("malformed")}

InitPredict ==
    /\ pc = "serving"
    /\ disk \in DiskStates
    /\ \/ disk = [model_pkl |-> FALSE, scaler_pkl |-> FALSE, model_info |-> FALSE,
                  info_names |-> <<>>, dataset |-> FALSE]
       \/ ~load_model_and_scaler(disk).raised
    /\ model = load_model_and_scaler(disk).model
    /\ scaler = load_model_and_scaler(disk).scaler
    /\ feature_names = load_model_and_scaler(disk).feature_names
    /\ feature_medians = load_model_and_scaler(disk).feature_medians
    /\ data = NonDict("null")
    /\ features = NoFeatures
    /\ result = NoResult
    /\ request = NoRequest
    /\ response = NoResponse
    /\ calls = <<>>
    /\ feature_array = NoArray
    /\ probe = NoProbe
    /\ DashboardClosed

OnePredictJson ==
    /\ pc = "serving"
    /\ \E t \in PredictValues("battery_temperature"), v \in PredictValues("voltage"),
       c \in PredictValues("current"), n \in PredictValues("charging_cycles"),
       s \in PredictValues("state_of_charge") :
        LET body == DictOf([battery_temperature |-> t, voltage |-> v, current |-> c,
                            charging_cycles |-> n, state_of_charge |-> s])
        IN  \E env \in Environments(body, RawOutputs) :
                /\ PredictRequest(PredictReq(TRUE, body, env))
                /\ pc' = "answered"
                /\ UNCHANGED probe

OnePredictOther ==
    /\ pc = "serving"
    /\ \E req \in {PredictReq(TRUE, b, Quiet) : b \in OtherBodies}
               \cup {PredictReq(FALSE, NonDict("unparsed"), Quiet)} :
        /\ PredictRequest(req)
        /\ pc' = "answered"
        /\ UNCHANGED probe

NextPredict == OnePredictJson \/ OnePredictOther

SpecPredict == InitPredict /\ [][NextPredict]_vars

----------------------------------------------------------------------------
(* prepare_features, rule by rule, on sampled inputs and catalogs *)

\* Catalogs a model_info.json may also list: one naming a feature twice
\* and a derived feature without its sources, one without the direct
\* voltage and temperature features, and one of derived features only.
ExtraCatalogs ==
    { <<"Min. Voltage Charg. (V)", "cycle_squared", "Exp_Time",
        "Min. Voltage Charg. (V)", "voltage_drop", "Cycle_Index">>,
      <<"Max. Voltage Dischar. (V)", "energy_density", "temp_deviation",
        "Time at 4.15V (s)", "Min. Voltage Charg. (V)">>,
      <<"energy_density", "voltage_drop", "temp_deviation",
        "Time constant current (s)">> }

\* Values of user_input: inside the ranges (the bounds, the documented
\* sample, voltages on both sides of 3.5), NaN, numeric strings, and the
\* field left out.
PrepareValues ==
    [battery_temperature |-> {Num(TempMin), Num(Nominal.battery_temperature),
                              NumStr(Nominal.battery_temperature), Absent},
     voltage |-> {Num(VoltageMin), Num(30), Num(35), Num(36),
                  Num(Nominal.voltage), Num(VoltageMax), NaN, Absent},
     current |-> {Num(Nominal.current), Absent},
     charging_cycles |-> {Num(CyclesMin), Num(Nominal.charging_cycles),
                          Num(CyclesMax), NumStr(Nominal.charging_cycles), Absent},
     state_of_charge |-> {Num(SocMin), Num(Nominal.state_of_charge),
                          Num(SocMax), Absent}]

InitPrepare ==
    /\ pc = "enter"
    /\ \E t \in PrepareValues.battery_temperature, v \in PrepareValues.voltage,
          c \in PrepareValues.current, n \in PrepareValues.charging_cycles,
          s \in PrepareValues.state_of_charge :
          data = DictOf([battery_temperature |-> t, voltage |-> v, current |-> c,
                         charging_cycles |-> n, state_of_charge |-> s])
    /\ feature_names \in InfoCatalogs \cup ExtraCatalogs \cup {DatasetColumns}
    /\ feature_medians \in {DatasetMedians, <<>>}
    /\ model = "loaded"
    /\ scaler = "loaded"
    /\ disk = {}
    /\ features = NoFeatures
    /\ result = NoResult
    /\ request = NoRequest
    /\ response = NoResponse
    /\ calls = <<>>
    /\ feature_array = NoArray
    /\ probe = NoProbe
    /\ DashboardClosed

\* The working map replaced by what a rule made of it; on to position
\* next, or to the exit when the rule raised.
Moved(after, next) ==
    /\ features' = after
    /\ pc' = IF after.exc = "none" THEN next ELSE "array"
    /\ UNCHANGED <<session_state, shown, report, data, result, disk, model, scaler, feature_names, feature_medians,
                   request, response, calls, feature_array, probe>>

BeginPrepare ==
    /\ pc = "enter"
    /\ Moved([features |-> InitialFeatures(feature_names, feature_medians),
              exc |-> "none"], "temperature")
RuleTemperature ==
    /\ pc = "temperature"
    /\ Moved(StepTemperature(features, data.fields, feature_names), "voltage")
RuleVoltage ==
    /\ pc = "voltage"
    /\ Moved(StepVoltage(features, data.fields, feature_names), "current")
RuleCurrent ==
    /\ pc = "current"
    /\ Moved(StepCurrent(features, data.fields, feature_names), "cycles")
RuleCycles ==
    /\ pc = "cycles"
    /\ Moved(StepCycles(features, data.fields, feature_names), "voltage_drop")
RuleVoltageDrop ==
    /\ pc = "voltage_drop"
    /\ Moved(StepVoltageDrop(features, feature_names), "energy_density")
RuleEnergyDensity ==
    /\ pc = "energy_density"
    /\ Moved(StepEnergyDensity(features, feature_names), "temp_deviation")
RuleTempDeviation ==
    /\ pc = "temp_deviation"
    /\ Moved(StepTempDeviation(features, feature_names), "soc")
RuleSoc ==
    /\ pc = "soc"
    /\ Moved(StepSoc(features, data.fields, feature_names), "exp_time")
RuleExpTime ==
    /\ pc = "exp_time"
    /\ Moved(StepExpTime(features, data.fields, feature_names), "array")

\* Lines 160-163, or the exception leaving the function.
BuildArray ==
    /\ pc = "array"
    /\ feature_array' = FeatureArray(features, feature_names, feature_medians)
    /\ pc' = "returned"
    /\ UNCHANGED <<session_state, shown, report, data, features, result, disk, model, scaler, feature_names,
                   feature_medians, request, response, calls, probe>>

NextPrepare ==
    \/ BeginPrepare \/ RuleTemperature \/ RuleVoltage \/ RuleCurrent \/ RuleCycles
    \/ RuleVoltageDrop \/ RuleEnergyDensity \/ RuleTempDeviation \/ RuleSoc
    \/ RuleExpTime \/ BuildArray

SpecPrepare == InitPrepare /\ [][NextPrepare]_vars

----------------------------------------------------------------------------
(* The documented contract of the validator, as the claims state it *)

\* The documented inclusive ranges, in tenths.
DocRange ==
    [battery_temperature |-> [lo |-> -200, hi |-> 600],
     voltage |-> [lo |-> 25, hi |-> 45],
     current |-> [lo |-> 0, hi |-> 100],
     charging_cycles |-> [lo |-> 0, hi |-> 100000],
     state_of_charge |-> [lo |-> 0, hi |-> 1000]]

AllPresent(d) == d.kind = "dict" /\ DOMAIN d.fields = FieldNames
\* A number: a finite JSON number or a string that reads as one.
IsNumeric(x) == x.k \in {"num", "str"}
\* float() yields a float for it (a number or NaN).
Converts(x) == x.k \in {"num", "str", "nan"}
InDocRange(f, x) == IsNumeric(x) /\ x.v >= DocRange[f].lo /\ x.v <= DocRange[f].hi
OutOfDocRange(f, x) == IsNumeric(x) /\ (x.v < DocRange[f].lo \/ x.v > DocRange[f].hi)
ValidInput(d) ==
    AllPresent(d) /\ \A f \in FieldNames : InDocRange(f, d.fields[f])

PositionOf(f) == CHOOSE i \in 1..Len(required_fields) : required_fields[i] = f
Before(f, g) == PositionOf(f) < PositionOf(g)

\* C1: every dict holding all five fields as numbers inside their
\* inclusive ranges, the bounds included, is accepted with (True, None).
C1_ValidAccepted ==
    (pc = "done" /\ ValidInput(data)) => result = Returned(TRUE, NoMessage)

C1_Witness ==
    /\ pc = "done"
    /\ ValidInput(data)
    /\ data.fields["battery_temperature"] = Num(-200)
    /\ data.fields["voltage"] = Num(45)
    /\ data.fields["state_of_charge"] = Num(1000)
    /\ result.ok

\* C2: validate_input succeeds only on a dict holding all five fields as
\* numbers inside their ranges, and returns (False, message) on every
\* other dict.
C2_SuccessOnlyIfValid ==
    (pc = "done" /\ data.kind = "dict") =>
        /\ result.ok => ValidInput(data)
        /\ ~ValidInput(data) =>
              (result.raised = "none" /\ ~result.ok /\ result.msg.kind # "None")

\* C3: with one or more of the five fields missing, the call fails with
\* the missing-fields message, which lists exactly the missing names, each
\* once, in the order of required_fields.
C3_AllMissingListed ==
    (pc = "done" /\ data.kind = "dict" /\ DOMAIN data.fields # FieldNames) =>
        /\ result.raised = "none" /\ ~result.ok
        /\ result.msg.kind = "MissingFields"
        /\ Range(result.msg.fields) = FieldNames \ DOMAIN data.fields
        /\ \A i, j \in 1..Len(result.msg.fields) :
              i < j => Before(result.msg.fields[i], result.msg.fields[j])

C3_Witness ==
    /\ pc = "done"
    /\ data.kind = "dict"
    /\ DOMAIN data.fields = {"battery_temperature", "current"}
    /\ result.msg.fields = <<"voltage", "charging_cycles", "state_of_charge">>

\* C4, as claimed: with all five fields present and numbers, every field
\* whose value is outside its range is named, with its bounds, by the
\* message.
C4_EveryOutOfRangeNamed ==
    (pc = "done" /\ AllPresent(data)
       /\ \A f \in FieldNames : IsNumeric(data.fields[f])) =>
        \A f \in FieldNames :
            OutOfDocRange(f, data.fields[f]) =>
                /\ result.raised = "none" /\ ~result.ok
                /\ result.msg.kind = "InvalidRange"
                /\ result.msg.field = f
                /\ result.msg.lo = DocRange[f].lo /\ result.msg.hi = DocRange[f].hi

\* The first field, in checking order, whose value is outside its range.
FirstOutOfRange(d) ==
    CHOOSE f \in FieldNames :
        /\ OutOfDocRange(f, d.fields[f])
        /\ \A g \in FieldNames : OutOfDocRange(g, d.fields[g]) => ~Before(g, f)

\* C4, amended: with all five fields present and each converting to a
\* float, if some value is outside its range the call fails with the range
\* message of the first such field in checking order, stating that
\* field's own documented bounds.
C4_FirstOutOfRangeNamed ==
    (pc = "done" /\ AllPresent(data)
       /\ (\A f \in FieldNames : Converts(data.fields[f]))
       /\ \E f \in FieldNames : OutOfDocRange(f, data.fields[f])) =>
        LET f == FirstOutOfRange(data)
        IN  /\ result.raised = "none" /\ ~result.ok
            /\ result.msg.kind = "InvalidRange"
            /\ result.msg.field = f
            /\ result.msg.lo = DocRange[f].lo /\ result.msg.hi = DocRange[f].hi

C4_Witness ==
    /\ pc = "done"
    /\ AllPresent(data)
    /\ \A f \in FieldNames : IsNumeric(data.fields[f])
    /\ OutOfDocRange("voltage", data.fields["voltage"])
    /\ OutOfDocRange("state_of_charge", data.fields["state_of_charge"])
    /\ result.msg.kind = "InvalidRange"
    /\ result.msg.field = "voltage"

\* float() raises ValueError or TypeError for it.
Unconvertible(x) == x.k \in {"badstr", "null"}

\* C6, as claimed: with all five fields present, one unconvertible field
\* is enough for the invalid-type message, whatever the other fields hold.
C6_UnconvertibleAlwaysInvalidType ==
    (pc = "done" /\ AllPresent(data)
       /\ \E f \in FieldNames : Unconvertible(data.fields[f])) =>
        result = Returned(FALSE, TypeMessage)

\* C6, amended: with all five fields present and one of them
\* unconvertible the call never succeeds, and it fails with the
\* invalid-type message when every field checked before the first
\* unconvertible one converts to a float that is not outside its range.
C6_InvalidTypeAfterCleanPrefix ==
    (pc = "done" /\ AllPresent(data)
       /\ \E f \in FieldNames : Unconvertible(data.fields[f])) =>
        /\ ~result.ok
        /\ (\E f \in FieldNames :
               /\ Unconvertible(data.fields[f])
               /\ \A g \in FieldNames :
                     Before(g, f) =>
                        (Converts(data.fields[g]) /\ ~OutOfDocRange(g, data.fields[g])))
           => result = Returned(FALSE, TypeMessage)

C6_Witness ==
    /\ pc = "done"
    /\ AllPresent(data)
    /\ data.fields["battery_temperature"] = Num(600)
    /\ data.fields["voltage"] = Null
    /\ OutOfDocRange("current", data.fields["current"])
    /\ result = Returned(FALSE, TypeMessage)

----------------------------------------------------------------------------
(* The documented contract of POST /predict, as the claims state it *)

Loaded == model = "loaded" /\ scaler = "loaded"
Answered == pc = "answered" /\ request.route = "POST /predict"
Invoked(stage) == stage \in Range(calls)

\* The out-of-range body of test_api.py: temperature 150, state of charge 150.
OutOfRangeTestBody ==
    Dict([NominalBody.fields EXCEPT !["battery_temperature"] = Num(1500),
                                    !["state_of_charge"] = Num(1500)])

NamesRangeOf(msg, f) == msg.kind = "InvalidRange" /\ msg.field = f

\* C5, as claimed: the body with temperature 150 and state of charge 150
\* is answered 400 with range messages for both fields.
C5_BothRangeMessages ==
    (Answered /\ Loaded /\ request.is_json /\ request.body = OutOfRangeTestBody) =>
        /\ response.status = 400
        /\ NamesRangeOf(response.error, "battery_temperature")
        /\ NamesRangeOf(response.error, "state_of_charge")

\* C5, amended: that body is answered 400 with status "error" and the
\* range message of battery_temperature alone (bounds -20 and 60); the
\* state of charge is not reported.
C5_TemperatureMessageOnly ==
    (Answered /\ Loaded /\ request.is_json /\ request.body = OutOfRangeTestBody) =>
        /\ response.status = 400
        /\ response.body_status = "error"
        /\ NamesRangeOf(response.error, "battery_temperature")
        /\ response.error.lo = -200 /\ response.error.hi = 600
        /\ ~NamesRangeOf(response.error, "state_of_charge")
        /\ calls = <<"validate_input">>

C5_Witness ==
    /\ Answered /\ Loaded /\ request.is_json
    /\ request.body = OutOfRangeTestBody
    /\ response.status = 400

\* C7: validation comes first and short-circuits, and prepare_features is
\* invoked only with a body holding all five fields as numbers inside
\* their ranges.
C7_FeaturesOnlyFromValidInput ==
    Answered =>
        /\ calls # <<>> => calls[1] = "validate_input"
        /\ (Invoked("validate_input")
              /\ ~(validate_input(request.body).raised = "none"
                   /\ validate_input(request.body).ok))
           => calls = <<"validate_input">>
        /\ Invoked("prepare_features") => ValidInput(request.body)

\* C8: with model and scaler loaded and neither raising, a body that
\* validate_input accepts is answered 200 "success" with predicted_rul >= 0,
\* battery_health_percentage in [0, 100] and the five values echoed.
C8_AcceptedBodySucceeds ==
    (Answered /\ Loaded /\ request.is_json /\ request.body.kind = "dict"
       /\ validate_input(request.body).raised = "none"
       /\ validate_input(request.body).ok
       /\ ~request.scaler_raises /\ ~request.model_raises) =>
        /\ response.status = 200
        /\ response.body_status = "success"
        /\ response.predicted_rul >= 0
        /\ response.battery_health_percentage \in 0..10000
        /\ response.input_data = request.body.fields

\* max(0, r) and its cap at the documented maximum of 1200 cycles, in
\* thousandths.
DocFloor(r) == IF r > 0 THEN r ELSE 0
DocCap(r) == IF DocFloor(r) > 1200000 THEN 1200000 ELSE DocFloor(r)

\* C9, as claimed: the reported RUL is max(0, r) and the reported health
\* is clamp(max(0, r) / 1200 * 100, 0, 100), exactly.
C9_ExactPostProcessing ==
    (Answered /\ response.status = 200) =>
        /\ response.predicted_rul * 10 = DocFloor(request.raw)
        /\ response.battery_health_percentage * 120 = DocCap(request.raw)

\* h is n/d rounded to the nearest integer, a tie going to the even one.
IsRounded(h, n, d) ==
    LET diff == IF h * d > n THEN h * d - n ELSE n - h * d
    IN  2 * diff <= d /\ (2 * diff = d => h % 2 = 0)

\* C9, amended: the reported RUL is max(0, r) rounded to two decimals and
\* the reported health is clamp(max(0, r) / 1200 * 100, 0, 100) rounded to
\* two decimals; the health is 0 for r <= 0, 100 for r >= 1200, and no
\* larger raw output is given a smaller health.
C9_RoundedPostProcessing ==
    (Answered /\ response.status = 200) =>
        /\ IsRounded(response.predicted_rul, DocFloor(request.raw), 10)
        /\ IsRounded(response.battery_health_percentage, DocCap(request.raw), 120)
        /\ request.raw <= 0 =>
              (response.predicted_rul = 0 /\ response.battery_health_percentage = 0)
        /\ request.raw >= 1200000 => response.battery_health_percentage = 10000
        /\ \A r \in RawOutputs :
              /\ r >= request.raw =>
                    BatteryHealth(FlooredRul(r)) >= response.battery_health_percentage
              /\ r <= request.raw =>
                    BatteryHealth(FlooredRul(r)) <= response.battery_health_percentage

C9_Witness ==
    /\ Answered /\ response.status = 200
    /\ request.raw = 300004
    /\ response.predicted_rul = 30000
    /\ response.battery_health_percentage = 2500

\* C10: a prepare_features call with the input of an earlier call gives
\* the vector the earlier call gave, whatever requests came in between.
C10_SameInputSameVector ==
    (pc = "serving" /\ probe.set /\ Invoked("prepare_features")
       /\ request.body.fields = probe.input) =>
        feature_array = probe.output

C10_Witness ==
    /\ pc = "serving" /\ probe.set /\ probe.between
    /\ Invoked("prepare_features")
    /\ request.body.fields = probe.input
    /\ feature_array.exc = "none"
    /\ Len(feature_array.array) > 0
    /\ feature_array = probe.output

----------------------------------------------------------------------------
(* The documented contract of the Feature Reconstructor *)

\* Valid user input: the five fields, each a JSON number inside its range.
NumbersInRange(d) ==
    AllPresent(d) /\ \A f \in FieldNames :
        d.fields[f].k = "num" /\ InDocRange(f, d.fields[f])

Built == pc = "returned"
PositionsOf(name) == {i \in 1..Len(feature_names) : feature_names[i] = name}

\* C11: for valid input and any catalog the vector has one entry per
\* catalog name, entry i being the working-map value of the i-th name.
C11_VectorFollowsCatalog ==
    (Built /\ NumbersInRange(data)) =>
        /\ feature_array.exc = "none"
        /\ Len(feature_array.array) = Len(feature_names)
        /\ \A i \in 1..Len(feature_names) :
              feature_array.array[i] = features.features[feature_names[i]]
        /\ feature_array = prepare_features(data.fields, feature_names, feature_medians)

C11_Witness ==
    /\ Built /\ NumbersInRange(data)
    /\ Len(feature_names) > Cardinality(Range(feature_names))
    /\ Len(feature_array.array) = Len(feature_names)

\* C12: for valid input and a catalog naming 'Min. Voltage Charg. (V)',
\* the entry at that name is max(voltage - 0.5, 3.0): never below 3.0, and
\* 3.4 for voltage 3.9.
C12_MinChargeVoltage ==
    (Built /\ NumbersInRange(data)) =>
        \A i \in PositionsOf("Min. Voltage Charg. (V)") :
            LET v == data.fields["voltage"].v
                x == feature_array.array[i]
            IN  /\ x = Num(IF v - 5 > 30 THEN v - 5 ELSE 30)
                /\ x.v >= 30
                /\ v = 39 => x = Num(34)

C12_Witness ==
    /\ Built /\ NumbersInRange(data)
    /\ data.fields["voltage"] = Num(25)
    /\ \E i \in PositionsOf("Min. Voltage Charg. (V)") : feature_array.array[i] = Num(30)

\* C13: for valid input with charging_cycles = c, the catalog's
\* Cycle_Index entry is c, its cycle_squared entry c * c (291600 for 540)
\* and its Exp_Time entry c * 10000 (5400000 for 540).
C13_CycleFeatures ==
    (Built /\ NumbersInRange(data)) =>
        LET c == data.fields["charging_cycles"].v
            At(i) == feature_array.array[i]
        IN  /\ \A i \in PositionsOf("Cycle_Index") : At(i) = Num(c)
            /\ \A i \in PositionsOf("cycle_squared") :
                  /\ At(i) = Num((c \div 10) * c)
                  /\ c = 5400 => At(i) = Num(2916000)
            /\ \A i \in PositionsOf("Exp_Time") :
                  /\ At(i) = Num(c * 10000)
                  /\ c = 5400 => At(i) = Num(54000000)

C13_Witness ==
    /\ Built /\ NumbersInRange(data)
    /\ data.fields["charging_cycles"] = Num(5400)
    /\ \E i \in PositionsOf("Cycle_Index") : feature_array.array[i] = Num(5400)
    /\ \E i \in PositionsOf("cycle_squared") : feature_array.array[i] = Num(2916000)
    /\ \E i \in PositionsOf("Exp_Time") : feature_array.array[i] = Num(54000000)

\* The names the rule at a position may write.
TargetsAt(at) ==
    CASE at = "temperature" -> {"Exp_Temperature"}
      [] at = "voltage" -> {"Exp_Voltage", "Max. Voltage Dischar. (V)",
                            "Min. Voltage Charg. (V)"}
      [] at = "current" -> {"Exp_Current"}
      [] at = "cycles" -> {"Cycle_Index", "cycle_squared"}
      [] at = "voltage_drop" -> {"voltage_drop"}
      [] at = "energy_density" -> {"energy_density"}
      [] at = "temp_deviation" -> {"temp_deviation"}
      [] at = "soc" -> {"Time at 4.15V (s)"}
      [] at = "exp_time" -> {"Exp_Time"}
      [] OTHER -> {}

\* C14: for any catalog and input, after every step the working map's keys
\* are exactly the catalog's names, and a step changes values only at its
\* own target names: a rule whose target the catalog lacks changes nothing.
C14_OnlyCatalogNamesWritten ==
    [][/\ features'.exc # "not called" =>
            DOMAIN features'.features = Range(feature_names')
       /\ \A n \in DOMAIN features.features \cap DOMAIN features'.features :
            features'.features[n] # features.features[n] => n \in TargetsAt(pc)
       /\ pc = "array" => \A i \in 1..Len(feature_array'.array) :
            feature_array'.array[i] = features.features[feature_names[i]]]_vars

C14_Witness ==
    /\ Built
    /\ feature_array.exc = "none"
    /\ "battery_temperature" \in DOMAIN data.fields
    /\ "Capacity" \in Range(feature_names)
    /\ "Exp_Temperature" \notin Range(feature_names)
    /\ DOMAIN features.features = Range(feature_names)

----------------------------------------------------------------------------
(* The documented contract of the server *)

\* C15: once the server serves, no request to /predict, /health or /
\* changes model, scaler, feature_names or feature_medians; the body that
\* went through prepare_features is echoed as it was sent; and the
\* response to a /predict request is the one its body and the loaded
\* catalog and model determine.
C15_CatalogReadOnly ==
    [][pc = "serving" =>
         /\ UNCHANGED <<model, scaler, feature_names, feature_medians>>
         /\ request'.route = "POST /predict" =>
              /\ response' = predict(request', model, scaler, feature_names,
                                     feature_medians).response
              /\ response'.status = 200 => response'.input_data = request'.body.fields]_vars

C15_Witness ==
    /\ pc = "serving" /\ Loaded
    /\ probe.set /\ probe.between
    /\ request.route = "POST /predict"
    /\ response.status = 200
    /\ feature_names # <<>>
    /\ feature_medians = DatasetMedians

\* The client-caused faults of a body: a required field missing, a value
\* outside its documented range, a value that is no number.
MissingField(d) == d.kind = "dict" /\ DOMAIN d.fields # FieldNames
OutOfRangeValue(d) ==
    d.kind = "dict" /\ \E f \in DOMAIN d.fields :
        OutOfDocRange(f, d.fields[f]) \/ d.fields[f].k = "bigint"
NonNumericValue(d) ==
    d.kind = "dict" /\ \E f \in DOMAIN d.fields : d.fields[f].k \in {"badstr", "null"}
ClientFault(d) == MissingField(d) \/ OutOfRangeValue(d) \/ NonNumericValue(d)

\* C16: with model and scaler loaded, a JSON request whose body has a
\* missing field, an out-of-range value or a non-numeric value is answered
\* 400 with status "error" and a message describing the field(s).
C16_ClientFaultGets400 ==
    (Answered /\ Loaded /\ request.is_json /\ ClientFault(request.body)) =>
        /\ response.status = 400
        /\ response.body_status = "error"
        /\ response.error.kind \in {"MissingFields", "InvalidRange", "InvalidType"}

Globals == {"None", "loaded"}

\* C17: while model or scaler is None, POST /predict answers every request
\* 500 with status "error", whatever its content type and body (an invalid
\* body included), and invokes no stage.
C17_UnloadedAlways500 ==
    Answered =>
        /\ (model = "None" \/ scaler = "None") =>
              /\ response.status = 500
              /\ response.body_status = "error"
              /\ response.error.kind = "Model not loaded"
              /\ calls = <<>>
              /\ feature_array = NoArray
        /\ \A m \in Globals, sc \in Globals :
              (m = "None" \/ sc = "None") =>
                 \E out \in {predict(request, m, sc, feature_names, feature_medians)} :
                    /\ out.response.status = 500
                    /\ out.response.body_status = "error"
                    /\ out.calls = <<>>

C17_Witness ==
    /\ Answered
    /\ model = "None"
    /\ request.is_json
    /\ ClientFault(request.body)
    /\ response.status = 500
    /\ calls = <<>>

Stages == <<"validate_input", "prepare_features", "scaler.transform", "model.predict">>
FailedWith(kind, n) ==
    /\ response.status = 500
    /\ response.body_status = "error"
    /\ response.error.kind = kind
    /\ calls = SubSeq(Stages, 1, n)

\* C18: the stages run in the order feature build, scaling, prediction,
\* each at most once; a fault in a stage is answered 500 with that stage's
\* own message and no later stage is invoked.
C18_StagesFailFast ==
    Answered =>
        /\ \E n \in 0..Len(Stages) : calls = SubSeq(Stages, 1, n)
        /\ Invoked("prepare_features") =>
              IF feature_array.exc # "none" THEN FailedWith("Error preparing features", 2)
              ELSE IF request.scaler_raises THEN FailedWith("Error scaling features", 3)
              ELSE IF request.model_raises THEN FailedWith("Error making prediction", 4)
              ELSE response.status = 200 /\ calls = Stages

C18_Witness ==
    /\ Answered
    /\ request.scaler_raises
    /\ FailedWith("Error scaling features", 3)

\* C19: GET /health answers 200 "healthy" in every state the server
\* serves in, with model_loaded and scaler_loaded telling whether the
\* globals are set; so does the handler for every combination of the two
\* globals.
C19_HealthAlways200 ==
    /\ request.route = "GET /health" =>
          /\ response.status = 200
          /\ response.body_status = "healthy"
          /\ response.model_loaded = (model # "None")
          /\ response.scaler_loaded = (scaler # "None")
    /\ \A m \in Globals, sc \in Globals :
          /\ health_check(m, sc).status = 200
          /\ health_check(m, sc).body_status = "healthy"
          /\ health_check(m, sc).model_loaded = (m # "None")
          /\ health_check(m, sc).scaler_loaded = (sc # "None")

C19_Witness ==
    /\ pc = "serving"
    /\ request.route = "GET /health"
    /\ model = "None"
    /\ response.status = 200
    /\ ~response.model_loaded

CatalogOnDisk == disk.model_info \/ disk.dataset
ModelOnDisk == disk.model_pkl /\ disk.scaler_pkl

\* C20, as claimed: a server that loaded and serves had both the catalog
\* and the reference dataset (the medians) on disk.
C20_CatalogAndMediansRequired ==
    (pc = "serving" /\ model # "None") => CatalogOnDisk /\ disk.dataset

\* C20, amended: a process run as a script serves only if the model file,
\* the scaler file and a source of feature names (model_info.json or the
\* dataset) were on disk, and exits otherwise; without the dataset it
\* serves with no medians, without model_info.json with the dataset's
\* columns.  A process that serves without having loaded has no model.
C20_ModelAndCatalogRequired ==
    /\ (pc = "serving" /\ model # "None") =>
          /\ ModelOnDisk /\ CatalogOnDisk
          /\ scaler # "None"
          /\ ~disk.dataset => feature_medians = <<>>
          /\ ~disk.model_info => feature_names = DatasetColumns
    /\ pc = "exited" => ~(ModelOnDisk /\ CatalogOnDisk)
    /\ (pc = "serving" /\ model = "None") =>
          scaler = "None" /\ feature_names = <<>> /\ feature_medians = <<>>

C20_Witness ==
    /\ pc = "serving"
    /\ model # "None"
    /\ disk.model_info /\ ~disk.dataset
    /\ feature_names # <<>>
    /\ feature_medians = <<>>
    /\ response.status = 200

----------------------------------------------------------------------------
(* The documented rules of the Feature Reconstructor *)

Named(name) == name \in Range(feature_names)
Fallback(name) ==
    IF name \in DOMAIN feature_medians THEN Num(feature_medians[name]) ELSE Num(0)
Entry(i) == feature_array.array[i]
ValidBuilt == Built /\ NumbersInRange(data)

C23_VoltageDrop ==
    ValidBuilt =>
        \A i \in PositionsOf("voltage_drop") :
            LET v == data.fields["voltage"].v
                floor == IF v - 5 > 30 THEN v - 5 ELSE 30
            IN  IF Named("Max. Voltage Dischar. (V)") /\ Named("Min. Voltage Charg. (V)")
                THEN /\ Entry(i) = Num(v - floor)
                     /\ Entry(i).v = features.features["Max. Voltage Dischar. (V)"].v
                                     - features.features["Min. Voltage Charg. (V)"].v
                ELSE Entry(i) = Fallback("voltage_drop")

C23_Witness ==
    /\ ValidBuilt
    /\ Named("Max. Voltage Dischar. (V)") /\ Named("Min. Voltage Charg. (V)")
    /\ data.fields["voltage"] = Num(25)
    /\ \E i \in PositionsOf("voltage_drop") : Entry(i) = Num(-5)

\* C24: for valid input the temp_deviation entry is the supplied
\* temperature minus 26.0 when the catalog names the temperature feature,
\* and the fallback value when it does not.
C24_TempDeviation ==
    ValidBuilt =>
        \A i \in PositionsOf("temp_deviation") :
            IF Named("Exp_Temperature")
            THEN Entry(i) = Num(data.fields["battery_temperature"].v - 260)
            ELSE Entry(i) = Fallback("temp_deviation")

C24_Witness ==
    /\ ValidBuilt
    /\ ~Named("Exp_Temperature")
    /\ feature_medians = DatasetMedians
    /\ \E i \in PositionsOf("temp_deviation") : Entry(i) = Num(-10)

\* C25: for valid input with state_of_charge s the 'Time at 4.15V (s)'
\* entry is 5000 + (s / 100) * 1000, between 5000 and 6000.
C25_TimeAtHighVoltage ==
    ValidBuilt =>
        \A i \in PositionsOf("Time at 4.15V (s)") :
            /\ Entry(i) = Num(50000 + 10 * data.fields["state_of_charge"].v)
            /\ Entry(i).v >= 50000
            /\ Entry(i).v <= 60000

C25_Witness ==
    /\ ValidBuilt
    /\ data.fields["state_of_charge"] = Num(760)
    /\ \E i \in PositionsOf("Time at 4.15V (s)") : Entry(i) = Num(57600)

AllTargets ==
    UNION {TargetsAt(at) : at \in {"temperature", "voltage", "current", "cycles",
                                   "voltage_drop", "energy_density", "temp_deviation",
                                   "soc", "exp_time"}}

\* C26: for valid input every entry whose name no rule targets is the
\* catalog's fallback value for that name, and the working map holds every
\* catalog name when the vector is read.
C26_UntargetedKeepFallback ==
    ValidBuilt =>
        \A i \in 1..Len(feature_names) :
            /\ feature_names[i] \in DOMAIN features.features
            /\ feature_names[i] \notin AllTargets => Entry(i) = Fallback(feature_names[i])

C26_Witness ==
    /\ ValidBuilt
    /\ \E i \in PositionsOf("Discharge Time (s)") : Entry(i) = Num(19000)
    /\ \E i \in PositionsOf("Capacity") : Entry(i) = Num(0)

----------------------------------------------------------------------------
(* The precedence of the validator's checks *)

\* A value that fails its field's check: no number, or a number outside
\* the documented range (an integer beyond the float range included).
Failing(f, x) == Unconvertible(x) \/ OutOfDocRange(f, x) \/ x.k = "bigint"
FirstFailing(d) ==
    CHOOSE f \in FieldNames :
        /\ Failing(f, d.fields[f])
        /\ \A g \in FieldNames : Failing(g, d.fields[g]) => ~Before(g, f)

\* C27: a failing call reports one condition: missing fields before any
\* type or range check; otherwise the condition of the first failing field
\* in the order battery_temperature, voltage, current, charging_cycles,
\* state_of_charge, whatever the later fields hold.
C27_FirstFailureReported ==
    (pc = "done" /\ data.kind = "dict") =>
        /\ MissingField(data) =>
              result.raised = "none" /\ ~result.ok /\ result.msg.kind = "MissingFields"
        /\ (AllPresent(data) /\ \E f \in FieldNames : Failing(f, data.fields[f])) =>
              LET f == FirstFailing(data)
              IN  /\ result.raised = "none" /\ ~result.ok
                  /\ IF Unconvertible(data.fields[f])
                     THEN result.msg = TypeMessage
                     ELSE result.msg.kind = "InvalidRange" /\ result.msg.field = f

----------------------------------------------------------------------------
(* Client faults and server faults of POST /predict *)

\* C28: with model and scaler loaded, every JSON body that is not an
\* object holding all five fields as in-range numbers (a null, a list, a
\* string, a bare number, numeric strings in the fields) is answered 400,
\* and 500 is answered only when one of the three pipeline stages raised.
C28_OnlyStagesAnswer500 ==
    (Answered /\ Loaded /\ request.is_json /\ request.body.kind # "malformed") =>
        /\ ~NumbersInRange(request.body) => response.status = 400
        /\ response.status = 500 =>
              /\ Invoked("prepare_features")
              /\ response.error.kind \in {"Error preparing features",
                                          "Error scaling features",
                                          "Error making prediction"}

----------------------------------------------------------------------------
(* The dashboard of app_ui.py: predict_battery_health and main *)

PyNone == [kind |-> "None"]
Truthy(x) == x.kind # "None"

\* The exception classes requests.post and response.json() raise here,
\* each with those of the classes named by the except clauses of
\* predict_battery_health it is an instance of (ConnectTimeout derives
\* from both ConnectionError and Timeout); all are instances of Exception.
Bases ==
    [ConnectionError |-> {"ConnectionError"},
     ConnectTimeout |-> {"ConnectionError", "Timeout"},
     ReadTimeout |-> {"Timeout"},
     TooManyRedirects |-> {},
     JSONDecodeError |-> {}]

\* What st.error, st.warning and st.success show.
Message(kind, detail) == [kind |-> kind, detail |-> detail]
CannotConnect == Message("Cannot connect to the API", "")
TimedOut == Message("Request timed out", "")
Unexpected(e) == Message("Unexpected error", e)
ApiError(error) == Message("API Error", error)

\* What requests.post comes to: an exception, or a response with a status
\* code and a body that is JSON or not.
Raises(e) == [kind |-> "raised", exc |-> e, status_code |-> 0, json |-> FALSE, body |-> <<>>]
HttpResponse(code, json, body) ==
    [kind |-> "response", exc |-> "none", status_code |-> code, json |-> json, body |-> body]
\* The body predict() answers 200 with (src/app.py:309-320).
SuccessBody(raw, input_data) ==
    [status |-> "success", predicted_rul |-> ReportedRul(FlooredRul(raw)),
     battery_health_percentage |-> BatteryHealth(FlooredRul(raw)),
     input_data |-> input_data]
ErrorBody(error) == [status |-> "error", error |-> error]

\* Lines 125-148 with the except clauses for the classes of `clauses`
\* tried in that order before `except Exception`: one requests.post, the
\* body returned for status 200, None and a message otherwise.
Post(data_, outcome, clauses) ==
    LET Caught(e) ==
            LET hit == {i \in 1..Len(clauses) : clauses[i] \in Bases[e]}
            IN  IF hit = {} THEN Unexpected(e)
                ELSE IF clauses[CHOOSE i \in hit : \A j \in hit : i <= j] = "ConnectionError"
                     THEN CannotConnect
                     ELSE TimedOut
        Failed(msg) == [posts |-> <<[url |-> "/predict", json |-> data_]>>,
                        returned |-> PyNone, shown |-> <<msg>>]
    IN  IF outcome.kind = "raised" THEN Failed(Caught(outcome.exc))
        ELSE IF ~outcome.json THEN Failed(Caught("JSONDecodeError"))
        ELSE IF outcome.status_code = 200
             THEN [posts |-> <<[url |-> "/predict", json |-> data_]>>,
                   returned |-> [kind |-> "dict", body |-> outcome.body],
                   shown |-> <<>>]
             ELSE Failed(ApiError(Get(outcome.body, "error", "Unknown error")))

\* Mutant of predict_battery_health: `except Timeout` before
\* `except ConnectionError`.
predict_battery_health_timeout_first(data_, outcome) ==
    Post(data_, outcome, <<"Timeout", "ConnectionError">>)

\* Lines 116-148.
predict_battery_health(data_, outcome) ==
    Post(data_, outcome, <<"ConnectionError", "Timeout">>)

\* The text generate_ai_insights_openai or _huggingface writes: about the
\* input and the result it was given.
Insights(by, input_data, prediction_result) ==
    [kind |-> "str", by |-> by, input_data |-> input_data,
     prediction_result |-> prediction_result]

\* Lines 384-414: OpenAI when asked for, installed and given a key, then
\* HuggingFace when installed; None when neither gave a text.  env tells
\* whether each provider's call succeeds.
generate_ai_insights(input_data, prediction_result, api_key, use_openai, packages, env) ==
    IF use_openai /\ packages.openai /\ api_key /\ env.openai_ok
    THEN Insights("openai", input_data, prediction_result)
    ELSE IF packages.transformers /\ env.hf_ok
         THEN Insights("huggingface", input_data, prediction_result)
         ELSE PyNone

\* st.session_state[key] = value.
Store(state, key, value) ==
    [k \in DOMAIN state \cup {key} |-> IF k = key THEN value ELSE state[k]]

\* Lines 490-493 of display_ai_configuration.
display_ai_configuration(state, ai_provider, api_key) ==
    LET use_openai == ai_provider = "OpenAI (GPT-4)"
        a == Store(state, "ai_enabled", ai_provider # "Disabled")
        b == Store(a, "use_openai", use_openai)
        c == Store(b, "use_huggingface", ai_provider = "HuggingFace")
    IN  Store(c, "openai_api_key", use_openai /\ api_key)

\* Lines 870-878: the insights stored when AI insights are enabled.
StoreInsights(state, ai_enabled, insights) ==
    IF ai_enabled THEN Store(state, "ai_insights", insights) ELSE state

\* Lines 846-881: the predict button's branch on a successful result.
StorePrediction(state, input_data, body, ai_enabled, insights) ==
    StoreInsights(Store(Store(state, "prediction_result", body),
                        "input_data", input_data),
                  ai_enabled, insights)

\* Lines 884-993: the report offered for the stored prediction, PDF with
\* reportlab and text without.
Report(state, packages) ==
    IF "prediction_result" \in DOMAIN state
    THEN [format |-> IF packages.reportlab THEN "pdf" ELSE "text",
          input_data |-> state["input_data"],
          prediction_result |-> state["prediction_result"],
          ai_insights |-> Get(state, "ai_insights", PyNone)]
    ELSE NoReport

\* What the user has set and done when the script runs, and what the
\* network and the AI providers do during the run.
Widgets(input_data, ai_provider, clicked) ==
    [input_data |-> input_data, ai_provider |-> ai_provider, clicked |-> clicked]

\* One run of main() (lines 750-1049).  An unhealthy API stops the script
\* before anything is stored or rendered.  The OpenAI key is the one of
\* the environment (os.getenv at line 473).
main(w, api_healthy, outcome, env) ==
    IF ~api_healthy
    THEN /\ session_state' = session_state
         /\ shown' = <<Message("API Connection Failed", "")>>
         /\ report' = NoReport
         /\ calls' = <<>>
         /\ result' = PyNone
         /\ response' = NoResponse
         /\ pc' = "stopped"
    ELSE LET ai_enabled == w.ai_provider # "Disabled"
             use_openai == w.ai_provider = "OpenAI (GPT-4)"
             configured == display_ai_configuration(session_state, w.ai_provider, disk.api_key)
             Succeeded(returned) ==
                 /\ w.clicked
                 /\ Truthy(returned)
                 /\ returned.body # <<>>
                 /\ Get(returned.body, "status", "") = "success"
             Stored(returned) ==
                 IF Succeeded(returned)
                 THEN StorePrediction(
                          configured, w.input_data, returned.body, ai_enabled,
                          generate_ai_insights(w.input_data, returned.body,
                                               use_openai /\ disk.api_key, use_openai,
                                               disk, env))
                 ELSE configured
         IN  \E posted \in {predict_battery_health(w.input_data, outcome)} :
             \E stored \in {Stored(posted.returned)} :
                 /\ session_state' = stored
                 /\ shown' = IF ~w.clicked THEN <<>>
                             ELSE IF Succeeded(posted.returned)
                                  THEN <<Message("Prediction completed successfully", "")>>
                                  ELSE posted.shown
                 /\ report' = Report(stored, disk)
                 /\ calls' = IF w.clicked THEN posted.posts ELSE <<>>
                 /\ result' = IF w.clicked THEN posted.returned ELSE PyNone
                 /\ response' = IF w.clicked THEN outcome ELSE NoResponse
                 /\ pc' = "rendered"

----------------------------------------------------------------------------
(* The dashboard run again and again *)

\* Slider settings sampled: the defaults of the sliders and two others.
SliderDefaults ==
    [battery_temperature |-> 250, voltage |-> 37, current |-> 10,
     charging_cycles |-> 5000, state_of_charge |-> 750]
SliderSettings ==
    {SliderDefaults,
     [SliderDefaults EXCEPT !["battery_temperature"] = 500, !["charging_cycles"] = 12000]}
AiProviders == {"OpenAI (GPT-4)", "HuggingFace", "Disabled"}
PostOutcomes(input_data) ==
    {Raises(e) : e \in {"ConnectionError", "ConnectTimeout", "ReadTimeout", "TooManyRedirects"}}
    \cup {HttpResponse(200, TRUE, SuccessBody(raw, input_data)) : raw \in {850504, 300000}}
    \cup {HttpResponse(200, FALSE, <<>>),
          HttpResponse(400, TRUE, ErrorBody("Invalid input")),
          HttpResponse(502, FALSE, <<>>)}
ProviderEnvs ==
    {[openai_ok |-> TRUE, hf_ok |-> TRUE], [openai_ok |-> FALSE, hf_ok |-> TRUE],
     [openai_ok |-> FALSE, hf_ok |-> FALSE]}
\* What the dashboard's process finds installed and set: everything;
\* OpenAI without a key and no reportlab; nothing.
Packages ==
    {[reportlab |-> TRUE, openai |-> TRUE, transformers |-> TRUE, api_key |-> TRUE],
     [reportlab |-> FALSE, openai |-> TRUE, transformers |-> TRUE, api_key |-> FALSE],
     [reportlab |-> FALSE, openai |-> FALSE, transformers |-> FALSE, api_key |-> FALSE]}

InitDashboard ==
    /\ pc = "started"
    /\ disk \in Packages
    /\ DashboardClosed
    /\ data = NonDict("null")
    /\ result = PyNone
    /\ features = NoFeatures
    /\ model = "None"
    /\ scaler = "None"
    /\ feature_names = <<>>
    /\ feature_medians = <<>>
    /\ request = Widgets(SliderDefaults, "OpenAI (GPT-4)", FALSE)
    /\ response = NoResponse
    /\ calls = <<>>
    /\ feature_array = NoArray
    /\ probe = NoProbe

\* A run of the script with the predict button pressed.
ClickPredict ==
    /\ pc \in {"started", "rendered", "stopped"}
    /\ \E input_data \in SliderSettings, ai_provider \in AiProviders,
          api_healthy \in BOOLEAN, env \in ProviderEnvs :
          \E outcome \in PostOutcomes(input_data) :
              /\ request' = Widgets(input_data, ai_provider, TRUE)
              /\ main(request', api_healthy, outcome, env)
    /\ UNCHANGED <<data, features, disk, model, scaler, feature_names, feature_medians,
                   feature_array, probe>>

\* A run of the script for another reason: the AI provider changed, the
\* page refreshed in the same session.
Rerun ==
    /\ pc \in {"started", "rendered", "stopped"}
    /\ \E ai_provider \in AiProviders, api_healthy \in BOOLEAN :
          /\ request' = Widgets(request.input_data, ai_provider, FALSE)
          /\ main(request', api_healthy, Raises("ConnectionError"),
                  [openai_ok |-> FALSE, hf_ok |-> FALSE])
    /\ UNCHANGED <<data, features, disk, model, scaler, feature_names, feature_medians,
                   feature_array, probe>>

NextDashboard == ClickPredict \/ Rerun

SpecDashboard == InitDashboard /\ [][NextDashboard]_vars

----------------------------------------------------------------------------
(* The dashboard's request to the API *)

\* predict_battery_health was called in the last run of the script.
Clicked == pc = "rendered" /\ request.clicked
RaisedBy(e) == response.kind = "raised" /\ response.exc = e
Answered200 == response.kind = "response" /\ response.status_code = 200
\* One POST whatever came of it; the body returned for status 200 only,
\* None otherwise.
OnePostBodyOn200 ==
    /\ Len(calls) = 1
    /\ Truthy(result) => Answered200 /\ result.body = response.body
    /\ ~Answered200 => result = PyNone
\* A response with another status than 200 has a message of its own.
Non200Message ==
    (response.kind = "response" /\ response.status_code # 200) =>
        /\ Len(shown) = 1
        /\ shown[1].kind \in {"API Error", "Unexpected error"}
        /\ shown[1] \notin {CannotConnect, TimedOut}

\* C21 as stated: one POST per invocation, the body returned only for
\* status 200 and None otherwise, and a message of its own for a
\* connection failure, for a timeout (a timeout while connecting
\* included) and for a response with another status than 200.
C21_MessagePerFailure ==
    Clicked =>
        /\ OnePostBodyOn200
        /\ RaisedBy("ConnectionError") => shown = <<CannotConnect>>
        /\ (RaisedBy("ReadTimeout") \/ RaisedBy("ConnectTimeout")) => shown = <<TimedOut>>
        /\ Non200Message

\* C21, amended: as above, but a timeout while connecting is shown as a
\* connection failure; only a timeout while waiting for the response is
\* shown as a timeout.
C21_ConnectTimeoutShownAsConnectionFailure ==
    Clicked =>
        /\ OnePostBodyOn200
        /\ (RaisedBy("ConnectionError") \/ RaisedBy("ConnectTimeout")) =>
              shown = <<CannotConnect>>
        /\ RaisedBy("ReadTimeout") => shown = <<TimedOut>>
        /\ Non200Message

C21_Witness ==
    /\ Clicked
    /\ RaisedBy("ConnectTimeout")
    /\ Len(calls) = 1
    /\ result = PyNone
    /\ shown = <<CannotConnect>>

----------------------------------------------------------------------------
(* The dashboard's session state *)

Has(key) == key \in DOMAIN session_state
\* Insights written about this input and this result.
About(insights, input_data, prediction_result) ==
    Truthy(insights) =>
        /\ insights.input_data = input_data
        /\ insights.prediction_result = prediction_result
\* The stored result, input and insights belong to one prediction, and so
\* do those of the report offered.
OfOnePrediction ==
    /\ Has("prediction_result") =>
          /\ Has("input_data")
          /\ session_state["prediction_result"].input_data = session_state["input_data"]
          /\ Has("ai_insights") =>
                About(session_state["ai_insights"], session_state["input_data"],
                      session_state["prediction_result"])
    /\ report.format # "none" =>
          About(report.ai_insights, report.input_data, report.prediction_result)
PredictionKeys == {"prediction_result", "input_data", "ai_insights"}
Kept(state) == [k \in PredictionKeys \cap DOMAIN state |-> state[k]]
FailedClick == request.clicked /\ shown # <<Message("Prediction completed successfully", "")>>

\* C29: after any sequence of predict clicks, successful or failed, with
\* AI insights enabled or disabled, prediction_result, input_data and
\* ai_insights in session state stem from the same prediction: a failed
\* prediction leaves all three as they were, and a successful one leaves
\* no ai_insights of an earlier prediction to go into the report for the
\* new result.
C29_SessionOfOnePrediction ==
    [][/\ OfOnePrediction'
       /\ FailedClick' => Kept(session_state') = Kept(session_state)]_vars

====
